---- MODULE Spec2Model ----
(***************************************************************************)
(* Model of papis_zotero/sql.py: the Zotero SQLite extraction driver       *)
(* add_from_sql and its resolvers get_fields, get_creators, get_files,     *)
(* get_tags and get_collections; and of papis_zotero/url.py: the web page  *)
(* importer add_from_url with process_url_main, _create_papis_document and *)
(* _print_metadata_and_ask.                                                *)
(*                                                                         *)
(* Conventions.  A Python string is a sequence of tokens (one character    *)
(* per token for dates and typed answers, one path component or prefix per *)
(* token for paths).  A nullable column is <<>> for NULL and <<x>> for the *)
(* value x.  A Python dict is a function from its keys to its values.      *)
(***************************************************************************)
EXTENDS Integers, Sequences, FiniteSets, TLC

VARIABLES
    items,            \* table items joined with itemTypes: itemID -> row
    itemData,         \* itemID -> sequence of <<fieldName, value>> rows
    itemCreators,     \* sequence of creator rows
    itemAttachments,  \* sequence of attachment rows (table order)
    itemTags,         \* itemID -> sequence of tag names
    collections,      \* collectionID -> [name, parent]
    collectionItems,  \* set of <<collectionID, itemID>>
    fs,               \* the set of paths that exist on disk
    args,             \* the arguments of the running call
    pc,               \* position of the running call
    cursor,           \* rows of ZOTERO_QUERY_ITEMS not yet fetched
    i,                \* loop index of add_from_sql
    items_count,      \* result of ZOTERO_QUERY_ITEM_COUNT
    call,             \* the add-operation call in flight, <<>> if none
    addCalls,         \* the add-operation calls that have ended, with their outcome
    logs,             \* log records emitted so far
    error,            \* the exception that left the call, <<>> if none
    lib,              \* the library papis.config is set to, <<>> if not set
    ret,              \* the value returned by a resolver
    library,          \* the papis database: the set of its entries
    metadata,         \* the metadata of the entry being created, <<>> if none
    answers           \* the lines the user has typed at the prompts

vars == <<items, itemData, itemCreators, itemAttachments, itemTags,
          collections, collectionItems, fs, args, pc, cursor, i,
          items_count, call, addCalls, logs, error, lib, ret,
          library, metadata, answers>>

dbvars == <<items, itemData, itemCreators, itemAttachments, itemTags,
            collections, collectionItems, fs>>

runvars == <<cursor, i, items_count, call, addCalls, logs, error, lib>>

\* the state of the web page importer, which no step of sql.py touches
urlvars == <<library, metadata, answers>>

----------------------------------------------------------------------------
(* Bounds of the model. *)

MaxTail == 6      \* characters of a date after its first four
MaxItems == 3     \* bibliographic items in the library of a driver run
MaxColl == 3      \* collections in the library
MaxAtt == 2       \* attachment rows in the library

----------------------------------------------------------------------------
(* Generic helpers. *)

NULL == <<>>

Some(x) == <<x>>

Range(s) == {s[k] : k \in DOMAIN s}

Put(d, k, v) == [x \in DOMAIN d \cup {k} |-> IF x = k THEN v ELSE d[x]]

Pop(d, k) == [x \in DOMAIN d \ {k} |-> d[x]]

EmptyDict == [x \in {} |-> <<>>]

\* dict.update: the entries of e replace or extend those of d
Update(d, e) == [x \in DOMAIN d \cup DOMAIN e |-> IF x \in DOMAIN e THEN e[x] ELSE d[x]]

RECURSIVE SeqsUpTo(_, _)
SeqsUpTo(S, n) ==
    IF n = 0 THEN {<<>>}
    ELSE LET shorter == SeqsUpTo(S, n - 1)
         IN  shorter \cup {Append(s, c) : s \in {t \in shorter : Len(t) = n - 1}, c \in S}

----------------------------------------------------------------------------
(* Static tables of papis_zotero.utils. *)

ZOTERO_EXCLUDED_FIELDS == {"accessDate", "id", "shortTitle", "attachments"}

ZOTERO_TO_PAPIS_FIELDS ==
    [abstractNote |-> "abstract", publicationTitle |-> "journal", DOI |-> "doi",
     ISBN |-> "isbn", ISSN |-> "issn"]

ZOTERO_EXCLUDED_ITEM_TYPES == {"attachment", "note"}

ZOTERO_TO_PAPIS_TYPES ==
    [journalArticle |-> "article", bookSection |-> "inbook"]

ZOTERO_SUPPORTED_MIMETYPES_TO_EXTENSION ==
    ("application/pdf" :> "pdf") @@ ("application/epub+zip" :> "epub")

----------------------------------------------------------------------------
(* get_fields *)

Digits == {"0", "1", "2", "3", "4", "5", "6", "7", "8", "9"}

DigitVal(c) ==
    CASE c = "0" -> 0 [] c = "1" -> 1 [] c = "2" -> 2 [] c = "3" -> 3
      [] c = "4" -> 4 [] c = "5" -> 5 [] c = "6" -> 6 [] c = "7" -> 7
      [] c = "8" -> 8 [] c = "9" -> 9

\* int(s) for a non-empty string of decimal digits
RECURSIVE int(_)
int(s) == IF s = <<>> THEN 0
          ELSE 10 * int(SubSeq(s, 1, Len(s) - 1)) + DigitVal(s[Len(s)])

\* the position after an optional "-" at position p
SkipDash(s, p) == IF p <= Len(s) /\ s[p] = "-" THEN p + 1 ELSE p

\* the number of characters \d{1,2} takes at position p, 0 if it cannot match
DigitRun(s, p) ==
    IF p <= Len(s) /\ s[p] \in Digits
    THEN IF p + 1 <= Len(s) /\ s[p + 1] \in Digits THEN 2 ELSE 1
    ELSE 0

\* ISO_DATE_RE.match(s): NULL when there is no match, otherwise the groups,
\* each group NULL when it did not take part in the match
ISO_DATE_RE_match(s) ==
    IF Len(s) < 4 \/ \E k \in 1..4 : s[k] \notin Digits
    THEN NULL
    ELSE LET pm == SkipDash(s, 5)
             nm == DigitRun(s, pm)
             pd == SkipDash(s, pm + nm)
             nd == DigitRun(s, pd)
         IN  Some([year  |-> Some(SubSeq(s, 1, 4)),
                   month |-> IF nm = 0 THEN NULL ELSE Some(SubSeq(s, pm, pm + nm - 1)),
                   day   |-> IF nd = 0 THEN NULL ELSE Some(SubSeq(s, pd, pd + nd - 1))])

\* ZOTERO_TO_PAPIS_FIELDS.get(name, name)
PapisFieldName(name) ==
    IF name \in DOMAIN ZOTERO_TO_PAPIS_FIELDS THEN ZOTERO_TO_PAPIS_FIELDS[name] ELSE name

\* the loop over the rows of ZOTERO_QUERY_ITEM_FIELD
RECURSIVE FieldsLoop(_, _)
FieldsLoop(rows, fields) ==
    IF rows = <<>> THEN fields
    ELSE LET name  == rows[1][1]
             value == rows[1][2]
         IN  IF name \in ZOTERO_EXCLUDED_FIELDS
             THEN FieldsLoop(Tail(rows), fields)
             ELSE FieldsLoop(Tail(rows), Put(fields, PapisFieldName(name), value))

\* the rows of ZOTERO_QUERY_ITEM_FIELD for an item
ZOTERO_QUERY_ITEM_FIELD(data, item_id) ==
    IF item_id \in DOMAIN data THEN data[item_id] ELSE <<>>

\* SplitDate that does not restore a date the pattern did not match
SplitDate_dropUnmatched(fields, date) ==
    LET m == ISO_DATE_RE_match(date)
    IN  IF m # NULL
        THEN LET g  == m[1]
                 f1 == Put(fields, "year", int(g.year[1]))
             IN  IF g.month # NULL THEN Put(f1, "month", int(g.month[1])) ELSE f1
        ELSE fields

\* lines 57-66: the year and month taken from the date, on the fields without
\* "date"; the date itself when the pattern does not match
SplitDate(fields, date) ==
    LET m == ISO_DATE_RE_match(date)
    IN  IF m # NULL
        THEN LET g  == m[1]
                 f1 == IF g.year # NULL /\ g.year[1] # <<>>
                       THEN Put(fields, "year", int(g.year[1])) ELSE fields
             IN  IF g.month # NULL /\ g.month[1] # <<>>
                 THEN Put(f1, "month", int(g.month[1])) ELSE f1
        ELSE Put(fields, "date", date)

\* get_fields reading the date with fields.get, leaving it in the result
get_fields_keepDate(data, item_id) ==
    LET fields == FieldsLoop(ZOTERO_QUERY_ITEM_FIELD(data, item_id), EmptyDict)
    IN  IF "date" \in DOMAIN fields
        THEN SplitDate(fields, fields["date"])
        ELSE fields

get_fields(data, item_id) ==
    LET fields == FieldsLoop(ZOTERO_QUERY_ITEM_FIELD(data, item_id), EmptyDict)
    IN  IF "date" \in DOMAIN fields
        THEN SplitDate(Pop(fields, "date"), fields["date"])
        ELSE fields

----------------------------------------------------------------------------
(* get_files *)

\* os.path.join of two paths, each a sequence of components, "/" the root
os_path_join(a, b) == IF b # <<>> /\ b[1] = "/" THEN b ELSE a \o b

os_path_exists(fsys, path) == path \in fsys

\* the rows of ZOTERO_QUERY_ITEM_ATTACHMENTS for an item, in table order
ZOTERO_QUERY_ITEM_ATTACHMENTS(atts, its, item_id) ==
    LET hit(r) == /\ r.parentItemID = Some(item_id)
                  /\ r.contentType # NULL
                  /\ r.contentType[1] \in DOMAIN ZOTERO_SUPPORTED_MIMETYPES_TO_EXTENSION
                  /\ r.itemID \in DOMAIN its
        sel    == SelectSeq(atts, hit)
    IN  [k \in DOMAIN sel |-> [key       |-> its[sel[k].itemID].key,
                               path      |-> sel[k].path,
                               mime_type |-> sel[k].contentType[1]]]

\* re.match(r"storage:(.*)", path) and re.match(r"attachments:(.*)", path):
\* the group when the path begins with the prefix, NULL when it does not
MatchPrefix(prefix, path) ==
    IF path # <<>> /\ path[1] = prefix THEN Some(Tail(path)) ELSE NULL

\* one pass of the loop body: the files and log records a row adds, where a
\* missing storage file is taken without the existence check
FileOfRow_unchecked(row, input_path, attachments_folder, fsys) ==
    IF row.path = NULL
    THEN [files |-> <<>>, logs |-> <<[level |-> "warning", msg |-> "path not specified", at |-> <<row.key>>]>>]
    ELSE LET path == row.path[1]
             st   == MatchPrefix("storage:", path)
             at   == MatchPrefix("attachments:", path)
         IN  IF st # NULL
             THEN [files |-> <<os_path_join(input_path, <<"storage", row.key>> \o st[1])>>,
                   logs |-> <<>>]
             ELSE IF at # NULL
             THEN LET file_path == os_path_join(attachments_folder, at[1])
                  IN  IF os_path_exists(fsys, file_path)
                      THEN [files |-> <<file_path>>, logs |-> <<>>]
                      ELSE [files |-> <<>>,
                            logs |-> <<[level |-> "warning", msg |-> "attachment file not found", at |-> file_path]>>]
             ELSE IF os_path_exists(fsys, path)
             THEN [files |-> <<path>>, logs |-> <<>>]
             ELSE [files |-> <<>>,
                   logs |-> <<[level |-> "error", msg |-> "failed to export attachment", at |-> path]>>]

\* one pass of the loop body of get_files: the files and log records a row adds
FileOfRow(row, input_path, attachments_folder, fsys) ==
    IF row.path = NULL
    THEN [files |-> <<>>, logs |-> <<[level |-> "warning", msg |-> "path not specified", at |-> <<row.key>>]>>]
    ELSE LET path == row.path[1]
             st   == MatchPrefix("storage:", path)
             at   == MatchPrefix("attachments:", path)
         IN  IF st # NULL
             THEN LET file_path == os_path_join(input_path, <<"storage", row.key>> \o st[1])
                  IN  IF os_path_exists(fsys, file_path)
                      THEN [files |-> <<file_path>>, logs |-> <<>>]
                      ELSE [files |-> <<>>,
                            logs |-> <<[level |-> "warning", msg |-> "storage file not found", at |-> file_path]>>]
             ELSE IF at # NULL
             THEN LET file_path == os_path_join(attachments_folder, at[1])
                  IN  IF os_path_exists(fsys, file_path)
                      THEN [files |-> <<file_path>>, logs |-> <<>>]
                      ELSE [files |-> <<>>,
                            logs |-> <<[level |-> "warning", msg |-> "attachment file not found", at |-> file_path]>>]
             ELSE IF os_path_exists(fsys, path)
             THEN [files |-> <<path>>, logs |-> <<>>]
             ELSE [files |-> <<>>,
                   logs |-> <<[level |-> "error", msg |-> "failed to export attachment", at |-> path]>>]

\* the loop of get_files putting each file before the ones found so far
RECURSIVE FilesLoop_prepend(_, _, _, _, _)
FilesLoop_prepend(rows, input_path, attachments_folder, fsys, acc) ==
    IF rows = <<>> THEN acc
    ELSE LET r == FileOfRow(rows[1], input_path, attachments_folder, fsys)
         IN  FilesLoop_prepend(Tail(rows), input_path, attachments_folder, fsys,
                               [files |-> r.files \o acc.files, logs |-> acc.logs \o r.logs])

\* the loop of get_files over the rows, in order
RECURSIVE FilesLoop(_, _, _, _, _)
FilesLoop(rows, input_path, attachments_folder, fsys, acc) ==
    IF rows = <<>> THEN acc
    ELSE LET r == FileOfRow(rows[1], input_path, attachments_folder, fsys)
         IN  FilesLoop(Tail(rows), input_path, attachments_folder, fsys,
                       [files |-> acc.files \o r.files, logs |-> acc.logs \o r.logs])

\* get_files: the list it returns and the log records it emits
get_files(atts, its, fsys, item_id, input_path, attachments_folder) ==
    FilesLoop(ZOTERO_QUERY_ITEM_ATTACHMENTS(atts, its, item_id),
              input_path, attachments_folder, fsys, [files |-> <<>>, logs |-> <<>>])

----------------------------------------------------------------------------
(* get_tags *)

\* the rows of ZOTERO_QUERY_ITEM_TAGS for an item
ZOTERO_QUERY_ITEM_TAGS(tags, item_id) ==
    IF item_id \in DOMAIN tags THEN tags[item_id] ELSE <<>>

get_tags(tags, item_id) ==
    LET names == ZOTERO_QUERY_ITEM_TAGS(tags, item_id)
    IN  IF names # <<>> THEN [tags |-> names] ELSE EmptyDict

----------------------------------------------------------------------------
(* get_creators *)

\* the creator types of the model in the order ORDER BY gives them
CreatorTypeOrder == <<"author", "editor", "seriesEditor">>

CreatorTypeRank(t) == CHOOSE k \in DOMAIN CreatorTypeOrder : CreatorTypeOrder[k] = t

\* str.lower on a creator type
lower(t) == IF t = "seriesEditor" THEN "serieseditor" ELSE t

\* row a comes before row b under ORDER BY creatorType, orderIndex
CreatorBefore(a, b) ==
    \/ CreatorTypeRank(a.creatorType) < CreatorTypeRank(b.creatorType)
    \/ /\ a.creatorType = b.creatorType
       /\ a.orderIndex < b.orderIndex

RECURSIVE SortCreators(_)
SortCreators(rows) ==
    IF rows = <<>> THEN <<>>
    ELSE LET k == CHOOSE a \in DOMAIN rows :
                      \A b \in DOMAIN rows : b = a \/ ~CreatorBefore(rows[b], rows[a])
         IN  <<rows[k]>> \o SortCreators(SubSeq(rows, 1, k - 1) \o SubSeq(rows, k + 1, Len(rows)))

\* the rows of the item in the order the table stores them, without ORDER BY
ZOTERO_QUERY_ITEM_CREATORS_unordered(creators, item_id) ==
    SelectSeq(creators, LAMBDA r : r.itemID = item_id)

\* the rows of ZOTERO_QUERY_ITEM_CREATORS for an item
ZOTERO_QUERY_ITEM_CREATORS(creators, item_id) ==
    SortCreators(SelectSeq(creators, LAMBDA r : r.itemID = item_id))

\* the loop gathering the creators by lower-cased type
RECURSIVE CreatorsByType(_, _)
CreatorsByType(rows, acc) ==
    IF rows = <<>> THEN acc
    ELSE LET ctype == lower(rows[1].creatorType)
             entry == [given |-> rows[1].firstName, family |-> rows[1].lastName]
             sofar == IF ctype \in DOMAIN acc THEN acc[ctype] ELSE <<>>
         IN  CreatorsByType(Tail(rows), Put(acc, ctype, Append(sofar, entry)))

\* papis.document.author_list_to_author: "Family, Given and Family, Given"
RECURSIVE author_list_to_author(_)
author_list_to_author(creators) ==
    IF creators = <<>> THEN <<>>
    ELSE <<creators[1].family, ", ", creators[1].given>>
         \o (IF Len(creators) > 1 THEN <<" and ">> ELSE <<>>)
         \o author_list_to_author(Tail(creators))

get_creators(creators, item_id) ==
    LET by_type == CreatorsByType(ZOTERO_QUERY_ITEM_CREATORS(creators, item_id), EmptyDict)
        keys    == DOMAIN by_type \cup {t \o "_list" : t \in DOMAIN by_type}
    IN  [k \in keys |-> IF k \in DOMAIN by_type
                        THEN author_list_to_author(by_type[k])
                        ELSE by_type[CHOOSE t \in DOMAIN by_type : t \o "_list" = k]]

----------------------------------------------------------------------------
(* get_collections *)

\* the inner SELECT with ORDER BY c.collectionID DESC
LastCollection(colls, ci, item_id) ==
    LET direct == {c \in DOMAIN colls : <<c, item_id>> \in ci}
    IN  IF direct = {} THEN NULL
        ELSE Some(CHOOSE c \in direct : \A d \in direct : c >= d)

\* the inner SELECT of ZOTERO_QUERY_ITEM_COLLECTIONS: the collections the item
\* is a direct member of, ORDER BY collectionID LIMIT 1
FirstCollection(colls, ci, item_id) ==
    LET direct == {c \in DOMAIN colls : <<c, item_id>> \in ci}
    IN  IF direct = {} THEN NULL
        ELSE Some(CHOOSE c \in direct : \A d \in direct : c <= d)

\* the collection reached from id by following k parent pointers, NULL if the
\* chain ends before
RECURSIVE Up(_, _, _)
Up(colls, id, k) ==
    IF k = 0 THEN Some(id)
    ELSE LET p == colls[id].parent
         IN  IF p = NULL \/ p[1] \notin DOMAIN colls THEN NULL
             ELSE Up(colls, p[1], k - 1)

\* the recursive step never runs out of rows: with n collections, a chain of
\* n parent pointers visits some collection twice
HierarchyIsInfinite(colls, ci, item_id) ==
    LET first == FirstCollection(colls, ci, item_id)
    IN  first # NULL /\ Up(colls, first[1], Cardinality(DOMAIN colls)) # NULL

\* the rows the recursive SELECT adds for the row (id, depth)
RECURSIVE HierarchyFrom(_, _, _)
HierarchyFrom(colls, id, depth) ==
    LET row == [id |-> id, name |-> colls[id].name,
                parent |-> colls[id].parent, depth |-> depth]
        p   == colls[id].parent
    IN  IF p = NULL \/ p[1] \notin DOMAIN colls THEN <<row>>
        ELSE <<row>> \o HierarchyFrom(colls, p[1], depth + 1)

\* the rows of collection_hierarchy, in the order they are produced
collection_hierarchy(colls, ci, item_id) ==
    LET first == FirstCollection(colls, ci, item_id)
    IN  IF first = NULL THEN <<>> ELSE HierarchyFrom(colls, first[1], 0)

\* SELECT DISTINCT name: a row whose name an earlier row has is dropped
DistinctName(rows) ==
    SelectSeq([k \in DOMAIN rows |-> [row |-> rows[k],
                                     dup |-> \E j \in 1..(k - 1) : rows[j].name = rows[k].name]],
              LAMBDA e : ~e.dup)

\* ORDER BY depth ASC: the order the rows were produced in
SortByDepthAsc(rows) == rows

\* ORDER BY depth DESC of rows produced with increasing depth
SortByDepthDesc(rows) == [k \in DOMAIN rows |-> rows[Len(rows) + 1 - k]]

\* the rows of ZOTERO_QUERY_ITEM_COLLECTIONS
ZOTERO_QUERY_ITEM_COLLECTIONS(colls, ci, item_id) ==
    LET kept == SortByDepthDesc(DistinctName(collection_hierarchy(colls, ci, item_id)))
    IN  [k \in DOMAIN kept |-> kept[k].row.name]

get_collections(colls, ci, item_id) ==
    LET names == ZOTERO_QUERY_ITEM_COLLECTIONS(colls, ci, item_id)
    IN  IF names # <<>> THEN [collections |-> names] ELSE EmptyDict

----------------------------------------------------------------------------
(* Values shared by the specifications. *)

NoItems == [x \in {} |-> <<>>]

NoCollections == [x \in {} |-> <<>>]

\* the library root, the attachments directory and the destination
LibraryRoot == <<"/", "zotero">>

AttachmentsDir == <<"/", "att">>

Destination == <<"/", "papis">>

ItemKey == <<"K1", "K2", "K3", "K4", "K5", "K6", "K7", "K8", "K9", "K10">>

DateAdded == <<"2021", "-", "03", "-", "04", " ", "05", ":", "06", ":", "07">>

ItemRow(typeName, k) == [typeName |-> typeName, key |-> ItemKey[k], dateAdded |-> DateAdded]

\* the variables of a driver run, before any run
RunIdle ==
    /\ cursor = <<>>
    /\ i = 0
    /\ items_count = 0
    /\ call = <<>>
    /\ addCalls = <<>>
    /\ logs = <<>>
    /\ error = <<>>
    /\ lib = <<>>

\* the variables of the web page importer, before any import
UrlIdle ==
    /\ library = {}
    /\ metadata = <<>>
    /\ answers = <<>>

\* the collections an item is a direct member of
DirectOf(item_id) == {c \in DOMAIN collections : <<c, item_id>> \in collectionItems}

MinDirectOf(item_id) == CHOOSE c \in DirectOf(item_id) : \A d \in DirectOf(item_id) : c <= d

\* c and the collections reached from c by parent pointers
AncestorsOrSelf(c) ==
    {a \in DOMAIN collections :
        \E k \in 0..Cardinality(DOMAIN collections) : Up(collections, c, k) = Some(a)}

\* the parent chain of c ends at a collection with no parent
ChainEndsAtRoot(c) ==
    \E r \in AncestorsOrSelf(c) :
        /\ collections[r].parent = NULL
        /\ \E k \in 0..(Cardinality(DOMAIN collections) - 1) :
              /\ Up(collections, c, k) = Some(r)
              /\ \A j \in 0..k : \A l \in 0..k :
                    j # l => Up(collections, c, j) # Up(collections, c, l)

\* the names of the chain of c, the root's name first
ChainNamesRootFirst(c) ==
    LET n == Cardinality(AncestorsOrSelf(c))
    IN  [k \in 1..n |-> collections[Up(collections, c, n - k)[1]].name]

DistinctNames(c) ==
    \A a \in AncestorsOrSelf(c) : \A b \in AncestorsOrSelf(c) :
        a # b => collections[a].name # collections[b].name

----------------------------------------------------------------------------
(* add_from_sql *)

RECURSIVE Ascending(_)
Ascending(S) ==
    IF S = {} THEN <<>>
    ELSE LET least == CHOOSE a \in S : \A b \in S : a <= b
         IN  <<least>> \o Ascending(S \ {least})

\* ZOTERO_QUERY_ITEM_COUNT without the WHERE clause on the type name
ZOTERO_QUERY_ITEM_COUNT_all(its) == Cardinality(DOMAIN its)

\* the one row of ZOTERO_QUERY_ITEM_COUNT
ZOTERO_QUERY_ITEM_COUNT(its) ==
    Cardinality({id \in DOMAIN its : its[id].typeName \notin ZOTERO_EXCLUDED_ITEM_TYPES})

\* ZOTERO_QUERY_ITEMS with ORDER BY item.itemID DESC
ZOTERO_QUERY_ITEMS_descending(its) ==
    LET ids == Ascending({id \in DOMAIN its : its[id].typeName \notin ZOTERO_EXCLUDED_ITEM_TYPES})
        n   == Len(ids)
    IN  [k \in DOMAIN ids |-> [item_id    |-> ids[n + 1 - k],
                               zitem_type |-> its[ids[n + 1 - k]].typeName,
                               item_key   |-> its[ids[n + 1 - k]].key,
                               zdate_added |-> its[ids[n + 1 - k]].dateAdded]]

\* the rows of ZOTERO_QUERY_ITEMS, ORDER BY item.itemID
ZOTERO_QUERY_ITEMS(its) ==
    LET ids == Ascending({id \in DOMAIN its : its[id].typeName \notin ZOTERO_EXCLUDED_ITEM_TYPES})
    IN  [k \in DOMAIN ids |-> [item_id    |-> ids[k],
                               zitem_type |-> its[ids[k]].typeName,
                               item_key   |-> its[ids[k]].key,
                               zdate_added |-> its[ids[k]].dateAdded]]

\* papis.config.get_lib_dirs()[0]
LibDir == <<"/", "lib">>

\* papis.config.getstring("add-folder-name")
AddFolderName == "add-folder-name"

FileNotFound(path) == Some([type |-> "FileNotFoundError", at |-> path])

\* lines 279-280: the destination the run uses
OutFolder(out_folder) == IF out_folder = NULL THEN LibDir ELSE out_folder[1]

\* the checks before the database is opened, without the one on the destination
PreflightError_noDestination(fsys, input_path, out_folder) ==
    IF ~os_path_exists(fsys, input_path) THEN FileNotFound(input_path)
    ELSE IF ~os_path_exists(fsys, os_path_join(input_path, <<"zotero.sqlite">>))
    THEN FileNotFound(os_path_join(input_path, <<"zotero.sqlite">>))
    ELSE NULL

\* lines 282-293: the exception the checks before the database is opened
\* raise, NULL when they pass
PreflightError(fsys, input_path, out_folder) ==
    IF ~os_path_exists(fsys, input_path) THEN FileNotFound(input_path)
    ELSE IF ~os_path_exists(fsys, OutFolder(out_folder)) THEN FileNotFound(OutFolder(out_folder))
    ELSE IF ~os_path_exists(fsys, os_path_join(input_path, <<"zotero.sqlite">>))
    THEN FileNotFound(os_path_join(input_path, <<"zotero.sqlite">>))
    ELSE NULL

\* datetime.strptime(s, "%Y-%m-%d %H:%M:%S"): NULL when s has another format
strptime(s) ==
    IF Len(s) = 11 /\ s[2] = "-" /\ s[4] = "-" /\ s[6] = " " /\ s[8] = ":" /\ s[10] = ":"
    THEN Some([Y |-> s[1], m |-> s[3], d |-> s[5], H |-> s[7], M |-> s[9], S |-> s[11]])
    ELSE NULL

\* strftime(papis.strings.time_format), the format "%Y-%m-%d-%H:%M:%S"
strftime(t) == <<t.Y, "-", t.m, "-", t.d, "-", t.H, ":", t.M, ":", t.S>>

\* ZOTERO_TO_PAPIS_TYPES.get(zitem_type, zitem_type)
PapisType(zitem_type) ==
    IF zitem_type \in DOMAIN ZOTERO_TO_PAPIS_TYPES
    THEN ZOTERO_TO_PAPIS_TYPES[zitem_type] ELSE zitem_type

\* os.path.join(*names), each name one path component
RECURSIVE JoinAll(_)
JoinAll(names) ==
    IF Len(names) = 1 THEN <<names[1]>>
    ELSE os_path_join(JoinAll(SubSeq(names, 1, Len(names) - 1)), <<names[Len(names)]>>)

\* the subfolder taken from the last collection name alone
Subfolder_lastOnly(item) ==
    IF "collections" \in DOMAIN item /\ Len(item["collections"]) > 0
    THEN <<item["collections"][Len(item["collections"])]>>
    ELSE <<"Misc">>

\* lines 337-340
Subfolder(item) ==
    IF "collections" \in DOMAIN item /\ Len(item["collections"]) > 0
    THEN JoinAll(item["collections"])
    ELSE <<"Misc">>

\* lines 328-332: the record of an item
Item(item_type, date_added, files, item_id) ==
    Update(Update(Update(Update(
        [type |-> item_type, files |-> files] @@ ("time-added" :> date_added),
        get_fields(itemData, item_id)),
        get_creators(itemCreators, item_id)),
        get_tags(itemTags, item_id)),
        get_collections(collections, collectionItems, item_id))

\* the items an earlier run has added (ret keeps them once a run has ended)
AddedBefore ==
    IF ret = <<>> THEN {}
    ELSE {ret[1].added[k] : k \in DOMAIN ret[1].added}

\* Preflight of a driver that leaves out the items an earlier run has added
Preflight_skipAdded ==
    /\ pc = "start"
    /\ LET e == PreflightError(fs, args.input_path, args.out_folder)
       IN  IF e # NULL
           THEN /\ error' = e
                /\ pc' = "raised"
                /\ UNCHANGED <<cursor, items_count, lib>>
           ELSE /\ items_count' = ZOTERO_QUERY_ITEM_COUNT(items)
                /\ cursor' = SelectSeq(ZOTERO_QUERY_ITEMS(items),
                                       LAMBDA row : row.item_id \notin AddedBefore)
                /\ lib' = Some(OutFolder(args.out_folder))
                /\ pc' = "loop"
                /\ UNCHANGED error
    /\ UNCHANGED <<dbvars, urlvars, args, i, call, addCalls, logs, ret>>

\* lines 279-311: the checks, the two queries and the configuration
Preflight ==
    /\ pc = "start"
    /\ LET e == PreflightError(fs, args.input_path, args.out_folder)
       IN  IF e # NULL
           THEN /\ error' = e
                /\ pc' = "raised"
                /\ UNCHANGED <<cursor, items_count, lib>>
           ELSE /\ items_count' = ZOTERO_QUERY_ITEM_COUNT(items)
                /\ cursor' = ZOTERO_QUERY_ITEMS(items)
                /\ lib' = Some(OutFolder(args.out_folder))
                /\ pc' = "loop"
                /\ UNCHANGED error
    /\ UNCHANGED <<dbvars, urlvars, args, i, call, addCalls, logs, ret>>

\* lines 313-342: one pass of the loop, up to the call of the add-operation
ProcessItem ==
    /\ pc = "loop"
    /\ cursor # <<>>
    /\ LET row   == Head(cursor)
           t     == strptime(row.zdate_added)
           input == args.input_path
           att   == IF args.attachments_folder # NULL
                    THEN args.attachments_folder[1] ELSE input
           f     == get_files(itemAttachments, items, fs, row.item_id, input, att)
           item  == Item(PapisType(row.zitem_type), strftime(t[1]), f.files, row.item_id)
       IN  /\ cursor' = Tail(cursor)
           /\ i' = i + 1
           /\ IF t = NULL
              THEN /\ error' = Some([type |-> "ValueError", at |-> row.zdate_added])
                   /\ pc' = "raised"
                   /\ UNCHANGED <<call, logs>>
              ELSE IF HierarchyIsInfinite(collections, collectionItems, row.item_id)
              THEN /\ pc' = "diverged"
                   /\ logs' = logs \o f.logs
                   /\ UNCHANGED <<call, error>>
              ELSE /\ logs' = logs \o f.logs
                        \o <<[level |-> "info", msg |-> "exporting item",
                              at |-> <<i + 1, items_count>>]>>
                   /\ call' = Some([paths |-> f.files, data |-> item, link |-> args.link,
                                    folder_name |-> AddFolderName,
                                    subfolder |-> Subfolder(item),
                                    item_id |-> row.item_id])
                   /\ pc' = "adding"
                   /\ UNCHANGED error
    /\ UNCHANGED <<dbvars, urlvars, args, items_count, addCalls, lib, ret>>

\* the add-operation returns
AddReturns ==
    /\ pc = "adding"
    /\ addCalls' = Append(addCalls, call[1] @@ [outcome |-> "returned"])
    /\ call' = NULL
    /\ pc' = "loop"
    /\ UNCHANGED <<dbvars, urlvars, args, cursor, i, items_count, logs, error, lib, ret>>

\* the add-operation raises and the entries added so far are taken back
AddRaises_rollback ==
    /\ pc = "adding"
    /\ addCalls' = <<>>
    /\ error' = Some([type |-> "AddError", at |-> <<call[1].item_id>>])
    /\ call' = NULL
    /\ pc' = "raised"
    /\ UNCHANGED <<dbvars, urlvars, args, cursor, i, items_count, logs, lib, ret>>

\* the add-operation raises: nothing in add_from_sql catches the exception
AddRaises ==
    /\ pc = "adding"
    /\ addCalls' = Append(addCalls, call[1] @@ [outcome |-> "raised"])
    /\ error' = Some([type |-> "AddError", at |-> <<call[1].item_id>>])
    /\ call' = NULL
    /\ pc' = "raised"
    /\ UNCHANGED <<dbvars, urlvars, args, cursor, i, items_count, logs, lib, ret>>

\* lines 344-345: the cursor is exhausted
Finish ==
    /\ pc = "loop"
    /\ cursor = <<>>
    /\ logs' = logs \o <<[level |-> "info", msg |-> "finished exporting", at |-> args.input_path],
                         [level |-> "info", msg |-> "exported files at", at |-> lib[1]]>>
    /\ pc' = "done"
    /\ UNCHANGED <<dbvars, urlvars, args, cursor, i, items_count, call, addCalls, error, lib, ret>>

Next == Preflight \/ ProcessItem \/ AddReturns \/ AddRaises \/ Finish

----------------------------------------------------------------------------
(* Spec: a run of add_from_sql on a library of MaxItems bibliographic      *)
(* items.  The k-th of them has the identifier 2k-1 and, when it has an    *)
(* attachment, the attachment is the item 2k.                              *)

Slots == 1..MaxItems

\* what a slot holds: a note, or an article that is a direct member of the
\* given collections and has no attachment, one whose storage file exists,
\* or one whose storage file is missing
Profiles ==
    {[typeName |-> "note", direct |-> {}, att |-> "none"]}
        \cup [typeName : {"journalArticle"}, direct : {{}, {3}, {2, 3}},
              att : {"none", "present", "missing"}]

StorageFile(k) == LibraryRoot \o <<"storage", ItemKey[2 * k], "a.pdf">>

\* the type of the item in slot k: the second bibliographic item, when it is
\* not a note, is a dataset, an item type that has a field named "type"
SlotType(prof, k) ==
    IF prof[k].typeName = "journalArticle" /\ k = 2 THEN "dataset" ELSE prof[k].typeName

LibraryItems(prof) ==
    LET ids == {2 * k - 1 : k \in Slots} \cup {2 * k : k \in {j \in Slots : prof[j].att # "none"}}
    IN  [id \in ids |-> IF id % 2 = 1 THEN ItemRow(SlotType(prof, (id + 1) \div 2), id)
                        ELSE ItemRow("attachment", id)]

LibraryAttachments(prof) ==
    LET with == Ascending({k \in Slots : prof[k].att # "none"})
    IN  [n \in DOMAIN with |-> [itemID |-> 2 * with[n], parentItemID |-> Some(2 * with[n] - 1),
                                path |-> Some(<<"storage:", "a.pdf">>),
                                contentType |-> Some("application/pdf")]]

LibraryCollections ==
    <<[name |-> "Root", parent |-> NULL],
      [name |-> "Mid", parent |-> Some(1)],
      [name |-> "Leaf", parent |-> Some(2)]>>

LibraryData ==
    [id \in {2 * k - 1 : k \in Slots} |->
        IF id = 1 THEN <<<<"title", <<"T">>>>, <<"date", <<"2", "0", "2", "0", "-", "1", "1">>>>>>
        ELSE IF id = 3 THEN <<<<"title", <<"T">>>>, <<"type", "Survey data">>>>
        ELSE <<<<"title", <<"T">>>>>>]

LibraryCreators ==
    <<[itemID |-> 1, creatorType |-> "editor", firstName |-> "E", lastName |-> "F", orderIndex |-> 2],
      [itemID |-> 1, creatorType |-> "author", firstName |-> "C", lastName |-> "D", orderIndex |-> 1],
      [itemID |-> 1, creatorType |-> "author", firstName |-> "A", lastName |-> "B", orderIndex |-> 0]>>

LibraryTags == [id \in {1} |-> <<"tag1", "tag2">>]

\* the paths the checks before the run look at; the database file lies in
\* the library root
Environments ==
    {e \in SUBSET {LibraryRoot, Destination, LibraryRoot \o <<"zotero.sqlite">>} :
        (LibraryRoot \o <<"zotero.sqlite">>) \in e => LibraryRoot \in e}

Init ==
    /\ \E prof \in [Slots -> Profiles], env \in Environments :
          /\ items = LibraryItems(prof)
          /\ itemAttachments = LibraryAttachments(prof)
          /\ collectionItems = {m \in (1..3) \X {2 * k - 1 : k \in Slots} :
                                   m[1] \in prof[(m[2] + 1) \div 2].direct}
          /\ fs = env \cup {LibDir} \cup {StorageFile(k) : k \in {j \in Slots : prof[j].att = "present"}}
    /\ itemData = LibraryData
    /\ itemCreators = LibraryCreators
    /\ itemTags = LibraryTags
    /\ collections = LibraryCollections
    /\ RunIdle
    /\ UrlIdle
    /\ \E out \in {NULL, Some(Destination)} :
          args = [input_path |-> LibraryRoot, out_folder |-> out,
                  attachments_folder |-> NULL, link |-> FALSE]
    /\ pc = "start"
    /\ ret = <<>>

Spec == Init /\ [][Next]_vars

\* the add-operation calls made so far, the one in flight last
Handed ==
    [k \in 1..(Len(addCalls) + (IF call # NULL THEN 1 ELSE 0)) |->
        IF k <= Len(addCalls) THEN addCalls[k] ELSE call[1]]

\* the identifiers of the items that are not of an excluded type, ascending
Enumerated ==
    Ascending({id \in DOMAIN items : items[id].typeName \notin ZOTERO_EXCLUDED_ITEM_TYPES})

\* the checks have passed and the loop has been entered
Looping == pc \in {"loop", "adding", "done"} \/ (pc = "raised" /\ error[1].type = "AddError")

\* a record that the add-operation failed; no action emits one
AddFailureLogged == \E l \in DOMAIN logs : logs[l].msg = "failed to add item"

\* C1: when the add-operation raises for an item and a later item exists, the
\* failure is logged and the run goes on to the later items instead of ending
\* with the exception.
C1_AddFailureIsolated ==
    \A k \in DOMAIN addCalls :
        (addCalls[k].outcome = "raised" /\ k < Len(Enumerated)) =>
            /\ pc \in {"loop", "adding", "done"}
            /\ AddFailureLogged

SqliteFile == os_path_join(args.input_path, <<"zotero.sqlite">>)

C7_SubfolderFromCollections ==
    \A k \in DOMAIN Handed :
        LET c == Handed[k]
        IN  IF DirectOf(c.item_id) = {}
            THEN "collections" \notin DOMAIN c.data /\ c.subfolder = <<"Misc">>
            ELSE /\ "collections" \in DOMAIN c.data
                 /\ c.data["collections"] = ChainNamesRootFirst(MinDirectOf(c.item_id))
                 /\ c.subfolder = c.data["collections"]

C7_Witness ==
    /\ Len(Handed) = 2
    /\ DirectOf(Handed[1].item_id) = {} /\ Handed[1].subfolder = <<"Misc">>
    /\ DirectOf(Handed[2].item_id) = {3} /\ Handed[2].subfolder = <<"Root", "Mid", "Leaf">>

\* the attachment rows of an item that use the storage: convention
StorageRows(item_id) ==
    {k \in DOMAIN itemAttachments :
        /\ itemAttachments[k].parentItemID = Some(item_id)
        /\ itemAttachments[k].contentType = Some("application/pdf")
        /\ itemAttachments[k].path # NULL
        /\ itemAttachments[k].path[1][1] = "storage:"}

\* <library_root>/storage/K/<name> for the attachment row k
StorageCandidate(k) ==
    args.input_path \o <<"storage", items[itemAttachments[k].itemID].key>>
        \o Tail(itemAttachments[k].path[1])

StorageWarning(path) ==
    \E l \in DOMAIN logs :
        /\ logs[l].msg = "storage file not found"
        /\ logs[l].level = "warning"
        /\ logs[l].at = path

\* C8: the file of a storage: attachment row is in the file list exactly when
\* it exists on disk; when it does not, a warning is logged and the item is
\* handed to the add-operation all the same.
C8_StorageFileIffExists ==
    /\ \A n \in DOMAIN Handed : \A k \in StorageRows(Handed[n].item_id) :
          /\ (StorageCandidate(k) \in Range(Handed[n].paths)) <=> (StorageCandidate(k) \in fs)
          /\ StorageCandidate(k) \notin fs => StorageWarning(StorageCandidate(k))
    /\ \A n \in 1..i :
          (\E k \in StorageRows(Enumerated[n]) : StorageCandidate(k) \notin fs) =>
              /\ n <= Len(Handed)
              /\ Handed[n].item_id = Enumerated[n]

C8_Witness ==
    /\ pc = "adding"
    /\ \E k \in StorageRows(call[1].item_id) :
          /\ StorageCandidate(k) \notin fs
          /\ StorageWarning(StorageCandidate(k))
    /\ call[1].paths = <<>>
    /\ \E n \in DOMAIN addCalls :
          /\ addCalls[n].outcome = "returned"
          /\ \E k \in StorageRows(addCalls[n].item_id) :
                addCalls[n].paths = <<StorageCandidate(k)>>

\* C10: no item of an excluded type is enumerated or counted; the count is the
\* number of items the loop enumerates, so every progress index lies between 1
\* and the total and is the total at the last item.
C10_CountMatchesEnumeration ==
    Looping =>
        /\ \A k \in DOMAIN Handed :
              items[Handed[k].item_id].typeName \notin ZOTERO_EXCLUDED_ITEM_TYPES
        /\ \A k \in DOMAIN cursor :
              cursor[k].zitem_type \notin ZOTERO_EXCLUDED_ITEM_TYPES
        /\ items_count = i + Len(cursor)
        /\ items_count = Cardinality({id \in DOMAIN items : items[id].typeName \notin {"attachment", "note"}})
        /\ \A l \in DOMAIN logs :
              logs[l].msg = "exporting item" =>
                  /\ 1 <= logs[l].at[1]
                  /\ logs[l].at[1] <= logs[l].at[2]
                  /\ logs[l].at[2] = items_count
        /\ (i >= 1 /\ cursor = <<>>) => i = items_count

C10_Witness ==
    /\ pc = "done" /\ i = 2 /\ items_count = 2
    /\ items[3].typeName = "note"
    /\ \E a \in DOMAIN items : items[a].typeName = "attachment"
    /\ Len(addCalls) = 2 /\ addCalls[2].item_id = 5

----------------------------------------------------------------------------
(* SpecFields: get_fields applied to the field rows of one item. *)

DateHeads == {<<>>, <<"2", "0", "2", "0">>, <<"1", "9", "9", "9">>, <<"c", ".">>}

TailChars == {"1", "-", "/"}

DateInputs == {h \o t : h \in DateHeads, t \in SeqsUpTo(TailChars, MaxTail)}

RowsBefore == {<<>>, <<<<"accessDate", <<"2", "0", "2", "1">>>>, <<"abstractNote", <<"A">>>>>>}

RowsAfter == {<<>>, <<<<"title", <<"T">>>>, <<"shortTitle", <<"S">>>>>>}

DateRows == {<<>>} \cup {<<<<"date", d>>>> : d \in DateInputs}

InitFields ==
    /\ items = NoItems
    /\ \E b \in RowsBefore, d \in DateRows, a \in RowsAfter :
          itemData = [k \in {1} |-> b \o d \o a]
    /\ itemCreators = <<>>
    /\ itemAttachments = <<>>
    /\ itemTags = NoItems
    /\ collections = NoCollections
    /\ collectionItems = {}
    /\ fs = {}
    /\ RunIdle
    /\ UrlIdle
    /\ args = [item_id |-> 1]
    /\ pc = "call"
    /\ ret = <<>>

CallGetFields ==
    /\ pc = "call"
    /\ ret' = get_fields(itemData, args.item_id)
    /\ pc' = "return"
    /\ UNCHANGED <<dbvars, urlvars, args, runvars>>

NextFields == CallGetFields

SpecFields == InitFields /\ [][NextFields]_vars

\* the value of the item's date field, NULL if it has none
DateField ==
    LET rows == itemData[args.item_id]
        at   == {k \in DOMAIN rows : rows[k][1] = "date"}
    IN  IF at = {} THEN NULL ELSE Some(rows[CHOOSE k \in at : TRUE][2])

AllDigits(s, from, to) == \A k \in from..to : s[k] \in Digits

\* s is YYYY
IsYYYY(s) == Len(s) = 4 /\ AllDigits(s, 1, 4)

\* s is YYYY-MM
IsYYYYMM(s) == Len(s) = 7 /\ AllDigits(s, 1, 4) /\ s[5] = "-" /\ AllDigits(s, 6, 7)

\* s is YYYY-MM-DD
IsYYYYMMDD(s) ==
    /\ Len(s) = 10 /\ AllDigits(s, 1, 4) /\ s[5] = "-" /\ AllDigits(s, 6, 7)
    /\ s[8] = "-" /\ AllDigits(s, 9, 10)

IsoForm(s) == IsYYYY(s) \/ IsYYYYMM(s) \/ IsYYYYMMDD(s)

YearDigits(s) ==
    1000 * DigitVal(s[1]) + 100 * DigitVal(s[2]) + 10 * DigitVal(s[3]) + DigitVal(s[4])

MonthDigits(s) == 10 * DigitVal(s[6]) + DigitVal(s[7])

\* C3: a date of the form YYYY, YYYY-MM or YYYY-MM-DD gives integer year equal
\* to the year digits, integer month equal to the month digits exactly when
\* the date has a month part, and no date key.
C3_IsoDateSplit ==
    (pc = "return" /\ DateField # NULL /\ IsoForm(DateField[1])) =>
        LET d == DateField[1]
        IN  /\ "year" \in DOMAIN ret /\ ret["year"] = YearDigits(d)
            /\ ("month" \in DOMAIN ret) <=> ~IsYYYY(d)
            /\ ~IsYYYY(d) => ret["month"] = MonthDigits(d)
            /\ "date" \notin DOMAIN ret

C3_Witness ==
    /\ pc = "return" /\ DateField # NULL /\ IsYYYYMMDD(DateField[1])
    /\ ret["year"] = 2020 /\ ret["month"] = 11

\* C4 as stated: a date not of the form YYYY[-MM[-DD]] is kept literally under
\* date, and the result has neither year nor month.
C4_NonIsoDateKept ==
    (pc = "return" /\ DateField # NULL /\ ~IsoForm(DateField[1])) =>
        /\ "date" \in DOMAIN ret /\ ret["date"] = DateField[1]
        /\ "year" \notin DOMAIN ret
        /\ "month" \notin DOMAIN ret

StartsWithFourDigits(s) == Len(s) >= 4 /\ AllDigits(s, 1, 4)

\* C4 as amended: a date that does not begin with four digits is kept
\* literally under date, and the result has neither year nor month.
C4_UnmatchedDateKept ==
    (pc = "return" /\ DateField # NULL /\ ~StartsWithFourDigits(DateField[1])) =>
        /\ "date" \in DOMAIN ret /\ ret["date"] = DateField[1]
        /\ "year" \notin DOMAIN ret
        /\ "month" \notin DOMAIN ret

C4_Witness ==
    /\ pc = "return" /\ DateField # NULL
    /\ DateField[1] = <<"c", ".", "1", "1", "1", "1">>
    /\ ret["date"] = DateField[1]

----------------------------------------------------------------------------
(* SpecColl: get_collections applied to one item of a library of MaxColl   *)
(* collections.                                                            *)

CollIDs == 1..MaxColl

OwnName == <<"A", "B", "C", "D", "E", "F">>

\* every collection has a name of its own or the name "X"
CollNamings == {nm \in [CollIDs -> {"X"} \cup Range(OwnName)] :
                   \A c \in CollIDs : nm[c] \in {"X", OwnName[c]}}

\* every collection has no parent or any collection as its parent
CollParents == [CollIDs -> {NULL} \cup {Some(c) : c \in CollIDs}]

OtherItem == [item_id |-> 2]

InitColl ==
    /\ items = NoItems
    /\ itemData = NoItems
    /\ itemCreators = <<>>
    /\ itemAttachments = <<>>
    /\ itemTags = NoItems
    /\ \E nm \in CollNamings, par \in CollParents :
          collections = [c \in CollIDs |-> [name |-> nm[c], parent |-> par[c]]]
    /\ \E direct \in SUBSET CollIDs :
          collectionItems = {<<c, 1>> : c \in direct}
                            \cup {<<c, OtherItem.item_id>> : c \in CollIDs}
    /\ fs = {}
    /\ RunIdle
    /\ UrlIdle
    /\ args = [item_id |-> 1]
    /\ pc = "call"
    /\ ret = <<>>

\* the query ends and get_collections returns
CallGetCollections ==
    /\ pc = "call"
    /\ ~HierarchyIsInfinite(collections, collectionItems, args.item_id)
    /\ ret' = get_collections(collections, collectionItems, args.item_id)
    /\ pc' = "return"
    /\ UNCHANGED <<dbvars, urlvars, args, runvars>>

\* the recursive query keeps producing rows: get_collections never returns
GetCollectionsDiverges ==
    /\ pc = "call"
    /\ HierarchyIsInfinite(collections, collectionItems, args.item_id)
    /\ pc' = "diverged"
    /\ UNCHANGED <<dbvars, urlvars, args, runvars, ret>>

NextColl == CallGetCollections \/ GetCollectionsDiverges

SpecColl == InitColl /\ [][NextColl]_vars

Direct == DirectOf(args.item_id)

MinDirect == MinDirectOf(args.item_id)

\* C5: when the chosen collection's parent chain ends at a collection with no
\* parent and the names on it are pairwise distinct, get_collections returns
\* exactly the names of the chain, root first and chosen collection last.
C5_ChainRootFirst ==
    (pc # "call" /\ Direct # {} /\ ChainEndsAtRoot(MinDirect) /\ DistinctNames(MinDirect)) =>
        /\ pc = "return"
        /\ ret = [collections |-> ChainNamesRootFirst(MinDirect)]

C5_Witness ==
    /\ pc = "return" /\ Direct = {3}
    /\ collections[3].parent = Some(2) /\ collections[2].parent = Some(1)
    /\ collections[1].parent = NULL
    /\ ret = [collections |-> <<"A", "B", "C">>]

\* C6: with several direct memberships the path is computed from the one with
\* the smallest collection identifier alone: it is the path of an item that is
\* a member of that collection only, and every name in it is the name of that
\* collection or of one of its ancestors.
C6_SmallestMembershipOnly ==
    (pc = "return" /\ Cardinality(Direct) >= 2) =>
        /\ ret = get_collections(collections, {<<MinDirect, args.item_id>>}, args.item_id)
        /\ \A k \in DOMAIN ret["collections"] :
              \E a \in AncestorsOrSelf(MinDirect) :
                  collections[a].name = ret["collections"][k]

C6_Witness ==
    /\ pc = "return" /\ Direct = {2, 3}
    /\ collections[2].parent = Some(1) /\ collections[1].parent = NULL
    /\ collections[3].parent = NULL /\ collections[3].name = "C"
    /\ ret = [collections |-> <<"A", "B">>]

----------------------------------------------------------------------------
(* SpecFiles: get_files applied to one item of a library of MaxAtt         *)
(* attachment rows.                                                        *)

AttIDs == 2..(MaxAtt + 1)

AttPaths == {NULL, Some(<<"storage:", "a.pdf">>), Some(<<"attachments:", "a.pdf">>),
             Some(<<"/", "ext", "a.pdf">>)}

AttTypes == {Some("application/pdf"), Some("text/html")}

AttRows == [itemID : AttIDs, parentItemID : {Some(1), Some(MaxAtt + 2)},
            path : AttPaths, contentType : AttTypes]

\* one row for each attachment item, in the order of the item identifiers
AttTables == {t \in [1..MaxAtt -> AttRows] : \A k \in 1..MaxAtt : t[k].itemID = k + 1}

FileCandidates ==
    {LibraryRoot \o <<"storage", ItemKey[a], "a.pdf">> : a \in AttIDs}
        \cup {AttachmentsDir \o <<"a.pdf">>, <<"/", "ext", "a.pdf">>}

InitFiles ==
    /\ items = [k \in 1..(MaxAtt + 2) |->
                   ItemRow(IF k \in AttIDs THEN "attachment" ELSE "journalArticle", k)]
    /\ itemData = NoItems
    /\ itemCreators = <<>>
    /\ itemAttachments \in AttTables
    /\ itemTags = NoItems
    /\ collections = NoCollections
    /\ collectionItems = {}
    /\ fs \in SUBSET FileCandidates
    /\ RunIdle
    /\ UrlIdle
    /\ args = [item_id |-> 1, input_path |-> LibraryRoot, attachments_folder |-> AttachmentsDir]
    /\ pc = "call"
    /\ ret = <<>>

CallGetFiles ==
    /\ pc = "call"
    /\ LET r == get_files(itemAttachments, items, fs,
                          args.item_id, args.input_path, args.attachments_folder)
       IN  /\ ret' = r.files
           /\ logs' = logs \o r.logs
    /\ pc' = "return"
    /\ UNCHANGED <<dbvars, urlvars, args, cursor, i, items_count, call, addCalls, error, lib>>

NextFiles == CallGetFiles

SpecFiles == InitFiles /\ [][NextFiles]_vars

\* the path an attachment row with a path stands for, under its convention
ResolvedPath(r) ==
    LET p == r.path[1]
    IN  IF p[1] = "storage:"
        THEN args.input_path \o <<"storage", items[r.itemID].key>> \o Tail(p)
        ELSE IF p[1] = "attachments:"
        THEN args.attachments_folder \o Tail(p)
        ELSE p

\* the attachment row is one of the item's and get_files keeps it
KeptRow(r) ==
    /\ r.parentItemID = Some(args.item_id)
    /\ r.contentType \in {Some("application/pdf"), Some("application/epub+zip")}
    /\ r.path # NULL
    /\ ResolvedPath(r) \in fs

\* C9: the list get_files returns is, in the order of the attachment rows,
\* exactly the resolved paths of the rows with a path, a supported content
\* type and a resolved path that exists; no path in it fails the existence
\* check.
C9_FilesAreKeptRowsInOrder ==
    pc = "return" =>
        LET kept == SelectSeq(itemAttachments, KeptRow)
        IN  /\ ret = [k \in DOMAIN kept |-> ResolvedPath(kept[k])]
            /\ \A k \in DOMAIN ret : ret[k] \in fs

C9_Witness ==
    /\ pc = "return"
    /\ itemAttachments[1].path = Some(<<"/", "ext", "a.pdf">>)
    /\ itemAttachments[2].path = Some(<<"storage:", "a.pdf">>)
    /\ ret = << <<"/", "ext", "a.pdf">>, LibraryRoot \o <<"storage", "K3", "a.pdf">> >>

----------------------------------------------------------------------------
(* get_creators on its own: the creator rows of two items, of every type,  *)
(* stored in any order.                                                    *)

MaxCre == 3       \* creator rows in the table

\* tables of MaxCre rows: each row belongs to item 1 or 2 and has a type;
\* the order indexes are a permutation, so the table order is arbitrary
CreatorTables ==
    {[k \in 1..MaxCre |->
         [itemID |-> o[k], creatorType |-> t[k],
          firstName |-> "G" \o ToString(k), lastName |-> "L" \o ToString(k),
          orderIndex |-> p[k] - 1]] :
        o \in [1..MaxCre -> {1, 2}],
        t \in [1..MaxCre -> Range(CreatorTypeOrder)],
        p \in Permutations(1..MaxCre)}

InitCreators ==
    /\ items = [k \in {1, 2} |-> ItemRow("journalArticle", k)]
    /\ itemData = NoItems
    /\ itemCreators \in CreatorTables
    /\ itemAttachments = <<>>
    /\ itemTags = NoItems
    /\ collections = NoCollections
    /\ collectionItems = {}
    /\ fs = {}
    /\ RunIdle
    /\ UrlIdle
    /\ args = [item_id |-> 1]
    /\ pc = "call"
    /\ ret = <<>>

CallGetCreators ==
    /\ pc = "call"
    /\ ret' = get_creators(itemCreators, args.item_id)
    /\ pc' = "return"
    /\ UNCHANGED <<dbvars, urlvars, args, runvars>>

NextCreators == CallGetCreators

SpecCreators == InitCreators /\ [][NextCreators]_vars

\* the rows of the item whose lower-cased type is role
RoleRows(role) ==
    {k \in DOMAIN itemCreators :
        /\ itemCreators[k].itemID = args.item_id
        /\ lower(itemCreators[k].creatorType) = role}

\* the lower-cased roles the item has a creator of
Roles == {lower(itemCreators[k].creatorType) :
             k \in {n \in DOMAIN itemCreators : itemCreators[n].itemID = args.item_id}}

\* the row of the role with exactly n rows of the role before it by order index
NthOfRole(role, n) ==
    CHOOSE k \in RoleRows(role) :
        Cardinality({j \in RoleRows(role) :
                        itemCreators[j].orderIndex < itemCreators[k].orderIndex}) = n - 1

\* C11: the mapping get_creators returns has, for every lower-cased role the
\* item has a creator of, the role key with a display string and the key
\* <role>_list, whose value is the {given, family} entries of the creators of
\* that role in ascending order index; it has no other key, and it is empty
\* for an item with no creators.
C11_CreatorsByRoleInOrder ==
    pc = "return" =>
        /\ DOMAIN ret = Roles \cup {r \o "_list" : r \in Roles}
        /\ \A r \in Roles :
              /\ ret[r] # <<>>
              /\ ret[r \o "_list"] =
                     [n \in 1..Cardinality(RoleRows(r)) |->
                         [given  |-> itemCreators[NthOfRole(r, n)].firstName,
                          family |-> itemCreators[NthOfRole(r, n)].lastName]]

\* two authors stored against their order indexes, and an editor
C11_Witness ==
    /\ pc = "return"
    /\ itemCreators[1].itemID = 1 /\ itemCreators[1].creatorType = "author"
    /\ itemCreators[2].itemID = 1 /\ itemCreators[2].creatorType = "author"
    /\ itemCreators[3].itemID = 1 /\ itemCreators[3].creatorType = "editor"
    /\ itemCreators[1].orderIndex > itemCreators[2].orderIndex
    /\ ret["author_list"] = <<[given |-> "G2", family |-> "L2"],
                              [given |-> "G1", family |-> "L1"]>>
    /\ "editor_list" \in DOMAIN ret

----------------------------------------------------------------------------
(* get_fields with the field-name translation table as an input: the table *)
(* is a static dictionary of papis_zotero.utils, read by name at line 52.  *)

MaxRows == 3      \* field rows of the item

\* to_papis.get(name, name)
TranslateField(to_papis, name) ==
    IF name \in DOMAIN to_papis THEN to_papis[name] ELSE name

\* the loop of lines 48-53 that inserts the rows without the test of line 49
RECURSIVE FieldsLoopWith_noExclusion(_, _, _)
FieldsLoopWith_noExclusion(to_papis, rows, fields) ==
    IF rows = <<>> THEN fields
    ELSE FieldsLoopWith_noExclusion(to_papis, Tail(rows),
             Put(fields, TranslateField(to_papis, rows[1][1]), rows[1][2]))

\* the loop of lines 48-53 under the translation table to_papis
RECURSIVE FieldsLoopWith(_, _, _)
FieldsLoopWith(to_papis, rows, fields) ==
    IF rows = <<>> THEN fields
    ELSE LET name  == rows[1][1]
             value == rows[1][2]
         IN  IF name \in ZOTERO_EXCLUDED_FIELDS
             THEN FieldsLoopWith(to_papis, Tail(rows), fields)
             ELSE FieldsLoopWith(to_papis, Tail(rows),
                      Put(fields, TranslateField(to_papis, name), value))

\* get_fields under the translation table to_papis
get_fields_with(to_papis, data, item_id) ==
    LET fields == FieldsLoopWith(to_papis, ZOTERO_QUERY_ITEM_FIELD(data, item_id), EmptyDict)
    IN  IF "date" \in DOMAIN fields
        THEN SplitDate(Pop(fields, "date"), fields["date"])
        ELSE fields

\* translation tables: the table of the model, and the table with one more
\* entry, whose target is a new name or a name of the deny-list
FieldNameTables ==
    {ZOTERO_TO_PAPIS_FIELDS}
        \cup {("callNumber" :> t) @@ ZOTERO_TO_PAPIS_FIELDS :
                 t \in {"call-number", "id", "shortTitle"}}

FieldNames == {"accessDate", "shortTitle", "abstractNote", "callNumber", "title"}

\* the rows of an item: at most MaxRows fields, each field once
FieldRows ==
    {[k \in DOMAIN s |-> <<s[k], <<"v", s[k]>>>>] :
        s \in {q \in SeqsUpTo(FieldNames, MaxRows) :
                  \A a, b \in DOMAIN q : a # b => q[a] # q[b]}}

InitFieldNames ==
    /\ items = NoItems
    /\ \E rows \in FieldRows : itemData = [k \in {1} |-> rows]
    /\ itemCreators = <<>>
    /\ itemAttachments = <<>>
    /\ itemTags = NoItems
    /\ collections = NoCollections
    /\ collectionItems = {}
    /\ fs = {}
    /\ RunIdle
    /\ UrlIdle
    /\ \E t \in FieldNameTables : args = [item_id |-> 1, to_papis |-> t]
    /\ pc = "call"
    /\ ret = <<>>

CallGetFieldsWith ==
    /\ pc = "call"
    /\ ret' = get_fields_with(args.to_papis, itemData, args.item_id)
    /\ pc' = "return"
    /\ UNCHANGED <<dbvars, urlvars, args, runvars>>

NextFieldNames == CallGetFieldsWith

SpecFieldNames == InitFieldNames /\ [][NextFieldNames]_vars

TranslationTargets == {args.to_papis[n] : n \in DOMAIN args.to_papis}

----------------------------------------------------------------------------
(* The loop of add_from_sql: order, number and end of the add calls. *)

\* no add-operation call of the run has raised
NoAddRaised == \A k \in DOMAIN addCalls : addCalls[k].outcome = "returned"

\* C13: in a run in which no add call raises, the add-operation is called
\* once per item that is not of an excluded type, in ascending order of the
\* item identifier, and every call has ended before the next item is
\* fetched: at most one call is in flight, and it is the call of the item
\* fetched last.
C13_OneAddPerItemInOrder ==
    NoAddRaised =>
        /\ Len(Handed) <= Len(Enumerated)
        /\ \A k \in DOMAIN Handed : Handed[k].item_id = Enumerated[k]
        /\ pc = "done" => Len(addCalls) = Len(Enumerated)
        /\ pc \in {"loop", "done"} => call = NULL /\ Len(addCalls) = i
        /\ pc = "adding" => call # NULL /\ Len(addCalls) = i - 1

\* a run over two items or more that has ended with every call returned
C13_Witness ==
    /\ pc = "done"
    /\ NoAddRaised
    /\ Len(addCalls) >= 2
    /\ addCalls[1].item_id = 1
    /\ addCalls[2].item_id = 3

----------------------------------------------------------------------------
(* The record add_from_sql hands to the add-operation. *)

\* DateAdded in papis.strings.time_format
TimeAdded == <<"2021", "-", "03", "-", "04", "-", "05", ":", "06", ":", "07">>

\* C17: the record handed to the add-operation for an item has under type the
\* translated name of the item's type, under time-added the reformatted
\* date-added and under files the file list passed as the paths; no field,
\* creator role, tags or collections entry merged afterwards replaces them.
C17_BaseFieldsKept ==
    \A k \in DOMAIN Handed :
        LET c == Handed[k]
        IN  /\ c.data["type"] = PapisType(items[c.item_id].typeName)
            /\ c.data["time-added"] = TimeAdded
            /\ c.data["files"] = c.paths

\* C16: nothing is rolled back: every step of a run, the one on which the run
\* stops or fails included, keeps the add calls that have ended as they are,
\* in their order, and a new call is never for an item of an earlier call; the
\* entries added for the first N items stay added, none removed or re-added.
C16_NoRollback ==
    [][/\ Len(addCalls') >= Len(addCalls)
       /\ SubSeq(addCalls', 1, Len(addCalls)) = addCalls
       /\ (call' # NULL /\ call = NULL) =>
              \A k \in DOMAIN addCalls : addCalls[k].item_id # call'[1].item_id]_vars

\* the run has failed on the second of three items, after one entry was added
C16_Witness ==
    /\ pc = "raised"
    /\ Len(addCalls) = 2
    /\ addCalls[1].outcome = "returned"
    /\ addCalls[2].outcome = "raised"
    /\ cursor # <<>>

----------------------------------------------------------------------------
(* SpecTwice: add_from_sql run a second time on the same, unchanged        *)
(* database and storage tree, after a first run that has ended in any way. *)
(* ret keeps what the first run handed to the add-operation.               *)

\* what a call gives the add-operation for its item
Given(c) == [data |-> c.data, paths |-> c.paths, subfolder |-> c.subfolder]

\* the first run has ended, by the end of the loop or by an exception; the
\* program is started again with the same arguments
RunAgain ==
    /\ pc \in {"done", "raised"}
    /\ ret = <<>>
    /\ ret' = Some([handed |-> [k \in DOMAIN addCalls |-> Given(addCalls[k])],
                    added  |-> LET ok == SelectSeq(addCalls, LAMBDA c : c.outcome = "returned")
                               IN  [k \in DOMAIN ok |-> ok[k].item_id],
                    ended  |-> pc])
    /\ pc' = "start"
    /\ cursor' = <<>>
    /\ i' = 0
    /\ items_count' = 0
    /\ call' = NULL
    /\ addCalls' = <<>>
    /\ logs' = <<>>
    /\ error' = NULL
    /\ lib' = NULL
    /\ UNCHANGED <<dbvars, urlvars, args>>

\* the libraries on which the checks before the run pass
InitTwice ==
    /\ Init
    /\ {LibraryRoot, Destination, LibraryRoot \o <<"zotero.sqlite">>} \subseteq fs
    /\ args.out_folder = Some(Destination)

NextTwice == Next \/ RunAgain

SpecTwice == InitTwice /\ [][NextTwice]_vars

----------------------------------------------------------------------------
(* SpecWalk: the recursive query of get_collections row by row.  cursor    *)
(* holds the rows of collection_hierarchy produced so far; the recursive   *)
(* step runs once for the row produced last.                               *)

\* the recursive SELECT joined ON c.collectionID = h.id
RecursiveStep_joinOnId(colls, h) ==
    Some([id |-> h.id, name |-> colls[h.id].name,
          parent |-> colls[h.id].parent, depth |-> h.depth + 1])

\* the row the recursive SELECT produces from the row h, NULL when the join
\* ON c.collectionID = h.parent finds no collection
RecursiveStep(colls, h) ==
    IF h.parent = NULL \/ h.parent[1] \notin DOMAIN colls THEN NULL
    ELSE LET c == h.parent[1]
         IN  Some([id |-> c, name |-> colls[c].name,
                   parent |-> colls[c].parent, depth |-> h.depth + 1])

\* the row the recursive step is to run for, NULL when no row is left
Pending == IF cursor = <<>> THEN NULL ELSE RecursiveStep(collections, cursor[Len(cursor)])

InitWalk ==
    /\ items = NoItems
    /\ itemData = NoItems
    /\ itemCreators = <<>>
    /\ itemAttachments = <<>>
    /\ itemTags = NoItems
    /\ \E par \in CollParents :
          collections = [c \in CollIDs |-> [name |-> OwnName[c], parent |-> par[c]]]
    /\ \E direct \in SUBSET CollIDs :
          collectionItems = {<<c, 1>> : c \in direct}
                            \cup {<<c, OtherItem.item_id>> : c \in CollIDs}
    /\ fs = {}
    /\ RunIdle
    /\ UrlIdle
    /\ args = [item_id |-> 1]
    /\ pc = "call"
    /\ ret = <<>>

\* the initial SELECT: the first direct collection at depth 0, or no row
WalkAnchor ==
    /\ pc = "call"
    /\ LET first == FirstCollection(collections, collectionItems, args.item_id)
       IN  cursor' = IF first = NULL THEN <<>>
                     ELSE <<[id |-> first[1], name |-> collections[first[1]].name,
                             parent |-> collections[first[1]].parent, depth |-> 0]>>
    /\ pc' = "walking"
    /\ UNCHANGED <<dbvars, urlvars, args, i, items_count, call, addCalls, logs, error, lib, ret>>

\* the recursive SELECT adds a row; rows beyond MaxColl + 1 are not kept in
\* the model, a walk that long goes round a cycle and never ends
WalkStep ==
    /\ pc = "walking"
    /\ Pending # NULL
    /\ Len(cursor) <= MaxColl
    /\ cursor' = Append(cursor, Pending[1])
    /\ UNCHANGED <<dbvars, urlvars, args, pc, i, items_count, call, addCalls, logs, error, lib, ret>>

\* the recursive SELECT adds no row: the outer SELECT runs and get_collections
\* returns
WalkReturn ==
    /\ pc = "walking"
    /\ Pending = NULL
    /\ LET kept  == SortByDepthDesc(DistinctName(cursor))
           names == [k \in DOMAIN kept |-> kept[k].row.name]
       IN  ret' = IF names # <<>> THEN [collections |-> names] ELSE EmptyDict
    /\ pc' = "return"
    /\ UNCHANGED <<dbvars, urlvars, args, runvars>>

NextWalk == WalkAnchor \/ WalkStep \/ WalkReturn

\* the database engine keeps running the query
SpecWalk == InitWalk /\ [][NextWalk]_vars /\ WF_vars(NextWalk)

\* no collection on the parent chain of c is its own ancestor
AcyclicChain(c) ==
    \A a \in AncestorsOrSelf(c) :
        \A k \in 1..MaxColl : Up(collections, a, k) # Some(a)

\* C15: for an item whose chosen collection has an acyclic parent chain, and
\* for an item that is in no collection, the hierarchy walk ends and
\* get_collections returns; what it returns for an item in no collection is
\* the empty mapping.
C15_WalkTerminates ==
    (pc = "call" /\ (Direct = {} \/ AcyclicChain(MinDirect)))
        ~> (pc = "return" /\ (Direct = {} => DOMAIN ret = {}))

\* the walk over a chain of three collections has returned
C15_Witness ==
    /\ pc = "return"
    /\ Direct # {}
    /\ AcyclicChain(MinDirect)
    /\ Len(cursor) = 3
    /\ ret = get_collections(collections, collectionItems, args.item_id)

----------------------------------------------------------------------------
(* papis_zotero/url.py: add_from_url.                                      *)
(*                                                                         *)
(* A URL is <<scheme, netloc, path>>.  An entry of the papis database is   *)
(* [id, origin], origin telling the entry that was there before the import *)
(* ("old") from the one the import creates ("new").  A YAML value is       *)
(* [type, value]: a mapping, or a scalar with its text under text.         *)

MaxPrompts == 3   \* lines the user types during one import

\* papis.id.key_name()
key_name == "papis_id"

\* str.lower on the characters and URL parts of the model
str_lower(c) ==
    CASE c = "Y" -> "y"
      [] c = "N" -> "n"
      [] c = "E" -> "e"
      [] c = "HTTP" -> "http"
      [] c = "Example.org" -> "example.org"
      [] OTHER -> c

\* str.strip: without the whitespace at both ends
RECURSIVE strip(_)
strip(s) ==
    IF s # <<>> /\ s[1] = " " THEN strip(Tail(s))
    ELSE IF s # <<>> /\ s[Len(s)] = " " THEN strip(SubSeq(s, 1, Len(s) - 1))
    ELSE s

\* input(prompt).strip().lower() for the typed line
Choice(line) == LET t == strip(line) IN [k \in DOMAIN t |-> str_lower(t[k])]

\* lines 131-164: the MD5 digest of the URL with scheme and netloc lower-cased
_generate_id_from_url(url) == <<"md5", str_lower(url[1]), str_lower(url[2]), url[3]>>

\* db.find_by_id: the entry with the id, NULL when there is none
find_by_id(db, id) ==
    IF \E e \in db : e.id = id THEN Some(CHOOSE e \in db : e.id = id) ELSE NULL

\* papis.commands.rm.run that leaves the entry in the database
doc_remove_keeps(db, doc) == db

\* papis.commands.rm.run, line 666
doc_remove(db, doc) == db \ {doc}

\* the temporary workspace of process_url_main
TempDir == <<"/", "tmp", "papis_importer_">>

\* the workspace removed where the function ends by itself or handles an
\* exception, and kept when SystemExit passes through
LeaveProcessUrlMain_noFinally(fsys, how) ==
    IF how = "SystemExit" THEN fsys ELSE fsys \ {TempDir}

\* lines 628-631, the finally clause: shutil.rmtree(temp_dir) however the
\* function is left
LeaveProcessUrlMain(fsys, how) == fsys \ {TempDir}

\* lines 474-485: the metadata built from the parsed page
InitialMetadata(url, mercury_data, doc_id) ==
    LET get(k, default) == IF k \in DOMAIN mercury_data THEN mercury_data[k] ELSE default
    IN  Put([url      |-> url,
             title    |-> get("title", "No title"),
             author   |-> get("author", "N.A."),
             date     |-> get("date_published", ""),
             abstract |-> get("excerpt", ""),
             tags     |-> <<"from-web", "auto-imported">>] @@ ("add-date" :> "today"),
            key_name, doc_id)

\* the metadata left as the user confirmed it, without line 488
EnsureId_unset(m, doc_id) == m

\* line 488: metadata[key_name] = doc_id after the confirmation
EnsureId(m, doc_id) == Put(m, key_name, doc_id)

Mapping(m) == [type |-> "dict", value |-> m]

OtherId == <<"md5", "typed", "by", "user">>

\* lines 334-399: what _edit_metadata_with_editor can return for the mapping
\* m: NULL (no change, empty or invalid file, no editor), or the YAML value
\* of the edited file, a mapping or not
EditResults(m) ==
    {NULL,
     Some(Mapping([m EXCEPT !["title"] = "Edited"])),
     Some(Mapping(Pop(m, key_name))),
     Some(Mapping(Put(m, key_name, OtherId))),
     Some([type |-> "str", value |-> [text |-> "notes"]])}

\* the lines a user types
Answers == {<<"y">>, <<" ", "Y">>, <<"n">>, <<"e">>, <<"x">>}

Urls == {<<"http", "example.org", "/a">>, <<"HTTP", "Example.org", "/a">>,
         <<"http", "example.org", "/b">>}

\* the entry of an earlier import of the page /a
OldEntry == [id |-> <<"md5", "http", "example.org", "/a">>, origin |-> "old"]

MercuryData == {[title |-> "T", author |-> "A"], [excerpt |-> "X"]}

Log(level, msg) == [level |-> level, msg |-> msg]

precomputed_id == _generate_id_from_url(args.url)

InitUrl ==
    /\ items = NoItems
    /\ itemData = NoItems
    /\ itemCreators = <<>>
    /\ itemAttachments = <<>>
    /\ itemTags = NoItems
    /\ collections = NoCollections
    /\ collectionItems = {}
    /\ fs = {}
    /\ RunIdle
    /\ library \in {{}, {OldEntry}}
    /\ metadata = <<>>
    /\ answers = <<>>
    /\ \E url \in Urls, link \in BOOLEAN, yaml \in BOOLEAN :
          args = [url |-> url, link |-> link, YAML_AVAILABLE |-> yaml]
    /\ pc = "start"
    /\ ret = <<>>

\* lines 649-661: the id is computed and looked up
AddFromUrl ==
    /\ pc = "start"
    /\ IF find_by_id(library, precomputed_id) # NULL
       THEN /\ logs' = logs \o <<Log("info", "Generated potential ID"),
                                 Log("warning", "Entry already exists")>>
            /\ pc' = "force_update"
       ELSE /\ logs' = logs \o <<Log("info", "Generated potential ID")>>
            /\ pc' = "process_url_main"
    /\ UNCHANGED <<dbvars, urlvars, args, cursor, i, items_count, call, addCalls, error, lib, ret>>

\* lines 662-671: the user answers the question about the old entry
AnswerForceUpdate ==
    /\ pc = "force_update"
    /\ \E line \in Answers :
          /\ answers' = Append(answers, line)
          /\ IF Choice(line) = <<"y">>
             THEN \/ /\ library' = doc_remove(library, find_by_id(library, precomputed_id)[1])
                     /\ logs' = logs \o <<Log("info", "Deleting old entry"),
                                          Log("info", "Old entry deleted")>>
                     /\ pc' = "process_url_main"
                     /\ UNCHANGED error
                  \/ /\ error' = Some([type |-> "Exception", at |-> "doc_remove"])
                     /\ logs' = logs \o <<Log("info", "Deleting old entry")>>
                     /\ pc' = "raised"
                     /\ UNCHANGED library
             ELSE /\ logs' = logs \o <<Log("info", "Aborting")>>
                  /\ error' = Some([type |-> "SystemExit", at |-> "add_from_url"])
                  /\ pc' = "exited"
                  /\ UNCHANGED library
    /\ UNCHANGED <<dbvars, args, cursor, i, items_count, call, addCalls, lib, ret, metadata>>

\* lines 581-588: process_url_main is entered and makes its workspace
MakeTempDir ==
    /\ pc = "process_url_main"
    /\ fs' = fs \cup {TempDir}
    /\ logs' = logs \o <<Log("info", "Temporary Workspace")>>
    /\ pc' = "fetch"
    /\ UNCHANGED <<items, itemData, itemCreators, itemAttachments, itemTags, collections,
                   collectionItems, urlvars, args, cursor, i, items_count, call, addCalls,
                   error, lib, ret>>

\* process_url_main is left through the handlers of lines 620-627 and the
\* finally clause
Handled(how, msg) ==
    /\ logs' = logs \o <<Log("error", msg), Log("info", "Cleaning up temp directory")>>
    /\ fs' = LeaveProcessUrlMain(fs, how)
    /\ pc' = "returned"

\* lines 590-598 and 474-485: the page is fetched and parsed, the simplified
\* HTML written and the metadata built
FetchAndParse ==
    /\ pc = "fetch"
    /\ \/ \E mercury_data \in MercuryData :
             /\ metadata' = Some(Mapping(InitialMetadata(args.url, mercury_data, precomputed_id)))
             /\ logs' = logs \o <<Log("info", "Creating Papis entry")>>
             /\ pc' = "ask"
             /\ UNCHANGED fs
       \/ /\ Handled("RequestException", "Unable to fetch raw HTML")
          /\ UNCHANGED metadata
       \/ /\ Handled("CalledProcessError", "Subprocess failed")
          /\ UNCHANGED metadata
       \/ /\ Handled("Exception", "Unexpected error")
          /\ UNCHANGED metadata
    /\ UNCHANGED <<items, itemData, itemCreators, itemAttachments, itemTags, collections,
                   collectionItems, library, answers, args, cursor, i, items_count, call,
                   addCalls, error, lib, ret>>

\* lines 419-451 and 486-490: one pass of the loop of _print_metadata_and_ask:
\* the metadata is printed and the user answers; on "y" the id is set again
\* and the add-operation called
PrintAndAsk ==
    /\ pc = "ask"
    /\ Len(answers) < MaxPrompts
    /\ IF metadata[1].type # "dict"
       THEN \* metadata.items() raises AttributeError
            /\ Handled("Exception", "Unexpected error")
            /\ UNCHANGED <<metadata, answers, call, error>>
       ELSE \E line \in Answers :
               /\ answers' = Append(answers, line)
               /\ CASE Choice(line) = <<"y">> ->
                         /\ call' = Some([paths |-> <<TempDir \o <<"raw.html">>,
                                                       TempDir \o <<"simplified.html">>>>,
                                          data  |-> EnsureId(metadata[1].value, precomputed_id),
                                          link  |-> args.link])
                         /\ pc' = "adding"
                         /\ UNCHANGED <<metadata, logs, error, fs>>
                    [] Choice(line) = <<"n">> ->
                         /\ logs' = logs \o <<Log("info", "Aborting"),
                                              Log("info", "Cleaning up temp directory")>>
                         /\ error' = Some([type |-> "SystemExit", at |-> "_print_metadata_and_ask"])
                         /\ fs' = LeaveProcessUrlMain(fs, "SystemExit")
                         /\ pc' = "exited"
                         /\ UNCHANGED <<metadata, call>>
                    [] Choice(line) = <<"e">> /\ args.YAML_AVAILABLE ->
                         /\ \E new_metadata \in EditResults(metadata[1].value) :
                               metadata' = IF new_metadata # NULL THEN new_metadata ELSE metadata
                         /\ UNCHANGED <<pc, call, logs, error, fs>>
                    [] OTHER ->
                         /\ logs' = logs \o <<Log("warning", "Invalid choice")>>
                         /\ UNCHANGED <<pc, metadata, call, error, fs>>
    /\ UNCHANGED <<items, itemData, itemCreators, itemAttachments, itemTags, collections,
                   collectionItems, library, args, cursor, i, items_count, addCalls, lib, ret>>

\* the entry the add-operation creates for the data
NewEntry(data) ==
    [id |-> IF key_name \in DOMAIN data THEN data[key_name] ELSE <<"id", "by", "papis">>,
     origin |-> "new"]

\* lines 490-494 and 606-631: the add-operation ends, the entry is looked
\* up, the PDF and Markdown are made, the entry is saved and the workspace
\* removed
DocAddEnds ==
    /\ pc = "adding"
    /\ \/ \* the entry is created
          /\ library' = library \cup {NewEntry(call[1].data)}
          /\ addCalls' = Append(addCalls, call[1] @@ [outcome |-> "returned"])
          /\ IF find_by_id(library', precomputed_id) # NULL
             THEN /\ \/ logs' = logs \o <<Log("info", "Successfully created entry"),
                                          Log("info", "All tasks completed"),
                                          Log("info", "Cleaning up temp directory")>>
                     \/ \* doc.save() raises
                        logs' = logs \o <<Log("info", "Successfully created entry"),
                                          Log("error", "Unexpected error"),
                                          Log("info", "Cleaning up temp directory")>>
                  /\ fs' = LeaveProcessUrlMain(fs, "return")
             ELSE /\ logs' = logs \o <<Log("info", "Successfully created entry"),
                                       Log("warning", "Cannot find document"),
                                       Log("info", "Cleaning up temp directory")>>
                  /\ fs' = LeaveProcessUrlMain(LeaveProcessUrlMain(fs, "return"), "return")
       \/ \* the add-operation returns without an entry: lines 606-609
          /\ find_by_id(library, precomputed_id) = NULL
          /\ addCalls' = Append(addCalls, call[1] @@ [outcome |-> "returned"])
          /\ logs' = logs \o <<Log("info", "Successfully created entry"),
                               Log("warning", "Cannot find document"),
                               Log("info", "Cleaning up temp directory")>>
          /\ fs' = LeaveProcessUrlMain(LeaveProcessUrlMain(fs, "return"), "return")
          /\ UNCHANGED library
       \/ \* the add-operation raises
          /\ addCalls' = Append(addCalls, call[1] @@ [outcome |-> "raised"])
          /\ logs' = logs \o <<Log("error", "Unexpected error"),
                               Log("info", "Cleaning up temp directory")>>
          /\ fs' = LeaveProcessUrlMain(fs, "Exception")
          /\ UNCHANGED library
    /\ call' = NULL
    /\ pc' = "returned"
    /\ UNCHANGED <<items, itemData, itemCreators, itemAttachments, itemTags, collections,
                   collectionItems, metadata, answers, args, cursor, i, items_count,
                   error, lib, ret>>

NextUrl ==
    AddFromUrl \/ AnswerForceUpdate \/ MakeTempDir \/ FetchAndParse \/ PrintAndAsk \/ DocAddEnds

SpecUrl == InitUrl /\ [][NextUrl]_vars

\* the log has a record with the message
Logged(msg) == \E l \in DOMAIN logs : logs[l].msg = msg

\* an entry with the computed id was found and the user asked about it
Asked == Logged("Entry already exists")

\* process_url_main has been entered
Started == Logged("Temporary Workspace")

\* C18: when an entry with the computed id exists and the answer to the
\* question, stripped and lower-cased, is not "y", the old entry stays, the
\* import ends and process_url_main is never entered; when it is "y", the old
\* entry is removed before process_url_main is entered; the database never
\* holds a new entry together with an old entry of the same id.
C18_OldEntryRemovedFirst ==
    /\ (Asked /\ answers # <<>> /\ Choice(answers[1]) # <<"y">>) =>
           /\ OldEntry \in library
           /\ ~Started
           /\ pc = "exited"
           /\ call = NULL /\ addCalls = <<>>
    /\ (Asked /\ Started) =>
           /\ Choice(answers[1]) = <<"y">>
           /\ OldEntry \notin library
    /\ \A e \in library : \A o \in library :
           (e.origin = "new" /\ o.origin = "old") => e.id # o.id

\* the user typed " Y", the old entry went and the new one was created
C18_Witness ==
    /\ Asked
    /\ pc = "returned"
    /\ answers[1] = <<" ", "Y">>
    /\ OldEntry \notin library
    /\ [id |-> OldEntry.id, origin |-> "new"] \in library

\* C19: whenever process_url_main has been left, by its end, by the return
\* for an entry not found after its creation, through a handled fetch,
\* subprocess or other exception or through the SystemExit of the answer "n",
\* its temporary workspace is not on disk any more.
C19_WorkspaceRemoved ==
    pc \in {"returned", "exited", "raised"} => TempDir \notin fs

\* the user ended the import with "n" at the metadata prompt
C19_Witness ==
    /\ pc = "exited"
    /\ Started
    /\ error[1].at = "_print_metadata_and_ask"
    /\ TempDir \notin fs

\* C20: whatever the user typed before, and whatever the edited metadata
\* holds, the data of every add-operation call has the precomputed id under
\* the id key, and the line typed last before the call is a "y".
C20_IdKeptAndConfirmed ==
    \A k \in DOMAIN Handed :
        /\ key_name \in DOMAIN Handed[k].data
        /\ Handed[k].data[key_name] = precomputed_id
        /\ answers # <<>>
        /\ Choice(answers[Len(answers)]) = <<"y">>

\* the id was edited away, an invalid line typed, and the import confirmed
C20_Witness ==
    /\ pc = "adding"
    /\ key_name \notin DOMAIN metadata[1].value
    /\ Len(answers) = 3
    /\ Choice(answers[1]) = <<"e">>
    /\ Choice(answers[2]) = <<"x">>
    /\ call[1].data[key_name] = precomputed_id

====
